---- MODULE Spec2Model ----
(***************************************************************************)
(* A model of mosaic.py: the construction of a Mosaic from a list of drone *)
(* image records (bounding corners, pixels-per-foot scale, canvas size)    *)
(* and the placement of every image on the canvas.                         *)
(*                                                                         *)
(* Numbers.  Python floats are modelled as fixed-point numbers with two    *)
(* decimal digits: the integer n stands for the real n/100.  Python ints   *)
(* are plain integers.  Latitudes and longitudes are integers counting     *)
(* 1e-7 degrees.  Angles are whole degrees; the trigonometric functions    *)
(* are tabulated on the angles the model uses.                             *)
(***************************************************************************)
EXTENDS Integers, Sequences, FiniteSets, TLC

(***************************************************************************)
(* CONSTANTS of mosaic.py                                                  *)
(***************************************************************************)
IMAGE_WIDTH == 4000
IMAGE_HEIGHT == 3000
WIDTH_MM == 36
FOCAL_LENGTH == 20

\* the centre of an image pasted at the canvas' top-left geographic corner
AnchorX == 2000
AnchorY == 1500

\* what _create_mosaic_image adds to the pixel size of the geographic extent
MarginWidth == 4000
MarginHeight == 3000

\* The longest image list the model passes to the constructor.
MaxImages == 2

(***************************************************************************)
(* Float arithmetic (fixed point, two decimals, sign-symmetric rounding    *)
(* toward zero) and Python's int().                                        *)
(***************************************************************************)
Abs(a) == IF a < 0 THEN -a ELSE a

Sign(a) == IF a < 0 THEN -1 ELSE 1

\* float(n) of a Python int
ToFloat(n) == n * 100

\* a * b on floats
FMul(a, b) == Sign(a) * Sign(b) * ((Abs(a) * Abs(b)) \div 100)

\* a / b on floats, b # 0
FDiv(a, b) == Sign(a) * Sign(b) * ((Abs(a) * 100) \div Abs(b))

\* int(a) of a float: truncation toward zero
PyInt(a) == Sign(a) * (Abs(a) \div 100)

\* a JSON number without a fraction is loaded as a Python int
IsPyInt(a) == a % 100 = 0

(***************************************************************************)
(* math.tan / math.sin / math.cos of math.radians(deg), on the angles used *)
(***************************************************************************)
TanDeg(deg) ==
    CASE deg = 0 -> 0
      [] deg = 30 -> 58
      [] deg = -30 -> -58

SinDeg(deg) ==
    CASE deg = 0 -> 0
      [] deg = 90 -> 100

CosDeg(deg) ==
    CASE deg = 0 -> 100
      [] deg = 90 -> 0

(***************************************************************************)
(* LONG/LAT DISTANCE CALCULATIONS (in feet)                                *)
(* vincenty(p1, p2).ft for two points on one parallel or one meridian, a   *)
(* few hundred feet apart: proportional to the coordinate difference.     *)
(* One 1e-7 degree of longitude at latitude 38 is 0.0288 ft, one 1e-7      *)
(* degree of latitude along the meridian -123 is 0.0364 ft.                *)
(***************************************************************************)
distance_between_latlong_points_in_feet(point1, point2) ==
    IF point1[1] = point2[1]
    THEN (Abs(point1[2] - point2[2]) * 288) \div 100
    ELSE (Abs(point1[1] - point2[1]) * 364) \div 100

horiz_distance_between_latlong_points_in_feet(point1, point2) ==
    distance_between_latlong_points_in_feet(<<380000000, point1[2]>>,
                                            <<380000000, point2[2]>>)

vert_distance_between_latlong_points_in_feet(point1, point2) ==
    distance_between_latlong_points_in_feet(<<point1[1], -1230000000>>,
                                            <<point2[1], -1230000000>>)

(***************************************************************************)
(* ANGLE-OF-VIEW CALCULATIONS                                              *)
(* The angle 2*atan(side/(2*focal)) is represented by the tangent of its   *)
(* half, the ratio side : 2*focal, which is all the program reads of it.   *)
(***************************************************************************)
angle_of_view(side_mm, focal_len_mm) ==
    [tan_half_num |-> side_mm, tan_half_den |-> 2 * focal_len_mm]

horizontal_angle_of_view == angle_of_view(WIDTH_MM, FOCAL_LENGTH)

meters_to_feet(meters) == Sign(meters) * ((Abs(meters) * 3281) \div 1000)

(***************************************************************************)
(* DroneImage records and the image lists of the model                     *)
(***************************************************************************)
DroneImage(filename, lat, long, altitude, yaw, pitch, roll) ==
    [filename |-> filename, lat |-> lat, long |-> long, altitude |-> altitude,
     yaw |-> yaw, pitch |-> pitch, roll |-> roll]

\* an image taken level and facing north, 100 m up, at (38.0, -123.0)
Baseline == DroneImage("img.jpg", 380000000, -1230000000, ToFloat(100), 0, 0, 0)

\* images that differ from the baseline in position only
PositionImages ==
    { [Baseline EXCEPT !.lat = la, !.long = lo] :
        la \in {380000000, 380000001, 380010000},
        lo \in {-1230000000, -1229990000} }

\* images that differ in altitude only: negative, zero, int and float values
AltitudeImages ==
    { [Baseline EXCEPT !.altitude = a] :
        a \in {ToFloat(-300), 0, ToFloat(105), 10050} }

\* images that differ in orientation only
AttitudeImages ==
    { [Baseline EXCEPT !.yaw = yw, !.pitch = pt, !.roll = rl] :
        yw \in {0, 90}, pt \in {-30, 0, 30}, rl \in {0, 30} }

\* images that differ from the baseline in everything
MixedImages ==
    { DroneImage("img.jpg", 380010000, -1229990000, ToFloat(-300), 90, 30, 30),
      DroneImage("img.jpg", 380000001, -1229990000, ToFloat(105), 90, -30, 0),
      DroneImage("img.jpg", 380010000, -1230000000, 10050, 0, 30, 0),
      DroneImage("img.jpg", 380000001, -1229990000, ToFloat(-300), 90, 30, 0),
      DroneImage("img.jpg", 380010000, -1229990000, ToFloat(105), 0, 0, 0),
      DroneImage("img.jpg", 380000000, -1229990000, 10050, 0, -30, 30) }

ImagePool == PositionImages \cup AltitudeImages \cup AttitudeImages \cup MixedImages

RECURSIVE SeqsUpTo(_, _)
SeqsUpTo(S, n) ==
    IF n = 0 THEN { <<>> }
    ELSE LET shorter == SeqsUpTo(S, n - 1)
         IN  shorter \cup { Append(s, e) : s \in { t \in shorter : Len(t) = n - 1 }, e \in S }

ImageLists == SeqsUpTo(ImagePool, MaxImages)

\* what data.json can hold: only the length of the loaded list is read again
DataFiles == { [i \in 1..n |-> Baseline] : n \in 0..MaxImages }

(***************************************************************************)
(* Optional values: <<>> is Python's None (or an unbound name), <<v>> is v *)
(***************************************************************************)
None == <<>>

Some(v) == <<v>>

(***************************************************************************)
(* The state                                                               *)
(*   images    the module-level name `images` (unbound until the script    *)
(*             loads data.json)                                            *)
(*   ctor_arg  the list given to the last Mosaic(...) call                 *)
(*   m         the Mosaic object, once its constructor has returned        *)
(*   idx       the position of add_all_images' loop in self.images         *)
(*   pasted    what has been pasted onto self.mosaic_image, in order       *)
(*   error     the exception that ended the program, or "none"             *)
(*   saved     whether the canvas has been written to disk                 *)
(***************************************************************************)
VARIABLES images, ctor_arg, m, idx, pasted, error, saved

vars == <<images, ctor_arg, m, idx, pasted, error, saved>>

(***************************************************************************)
(* Mosaic._get_min_max_long_and_lat: one pass of the loop body, then the   *)
(* loop over self.images.                                                 *)
(***************************************************************************)
MinMaxStepFirstOnly(acc, image) ==
    [min_long |-> IF acc.min_long = None THEN Some(image.long) ELSE acc.min_long,
     max_long |-> IF acc.max_long = None THEN Some(image.long)
                  ELSE IF image.long > acc.max_long[1] THEN Some(image.long)
                  ELSE acc.max_long,
     min_lat  |-> IF acc.min_lat = None THEN Some(image.lat)
                  ELSE IF image.lat < acc.min_lat[1] THEN Some(image.lat)
                  ELSE acc.min_lat,
     max_lat  |-> IF acc.max_lat = None THEN Some(image.lat) ELSE acc.max_lat]

MinMaxStep(acc, image) ==
    [min_long |-> IF acc.min_long = None THEN Some(image.long)
                  ELSE IF image.long < acc.min_long[1] THEN Some(image.long)
                  ELSE acc.min_long,
     max_long |-> IF acc.max_long = None THEN Some(image.long)
                  ELSE IF image.long > acc.max_long[1] THEN Some(image.long)
                  ELSE acc.max_long,
     min_lat  |-> IF acc.min_lat = None THEN Some(image.lat)
                  ELSE IF image.lat < acc.min_lat[1] THEN Some(image.lat)
                  ELSE acc.min_lat,
     max_lat  |-> IF acc.max_lat = None THEN Some(image.lat)
                  ELSE IF image.lat > acc.max_lat[1] THEN Some(image.lat)
                  ELSE acc.max_lat]

RECURSIVE MinMaxLoop(_, _, _)
MinMaxLoop(self_images, i, acc) ==
    IF i > Len(self_images) THEN acc
    ELSE MinMaxLoop(self_images, i + 1, MinMaxStep(acc, self_images[i]))

_get_min_max_long_and_lat(self_images) ==
    MinMaxLoop(self_images, 1,
               [min_long |-> None, max_long |-> None, min_lat |-> None, max_lat |-> None])

\* Mosaic._get_mosaic_lat_long_corners: ((max_lat, min_long), (min_lat, max_long))
_get_mosaic_lat_long_corners(self_images) ==
    LET mm == _get_min_max_long_and_lat(self_images)
    IN  [top_left |-> <<mm.max_lat, mm.min_long>>,
         bottom_right |-> <<mm.min_lat, mm.max_long>>]

(***************************************************************************)
(* Mosaic._calculate_pixels_per_foot.  The divisor is len(images), the     *)
(* module-level name, not len(self.images).  Python 2: int / int floors.   *)
(* The result is [err, val]: the exception raised, or the value returned.  *)
(***************************************************************************)
RECURSIVE SumAltitudes(_, _)
SumAltitudes(self_images, i) ==
    IF i > Len(self_images) THEN 0
    ELSE self_images[i].altitude + SumAltitudes(self_images, i + 1)

average_altitude_meters(self_images, global_images) ==
    LET total == SumAltitudes(self_images, 1)
        allInt == \A i \in 1..Len(self_images) : IsPyInt(self_images[i].altitude)
        n == Len(global_images[1])
    IN  IF global_images = None THEN [err |-> "NameError", val |-> 0]
        ELSE IF n = 0 THEN [err |-> "ZeroDivisionError", val |-> 0]
        ELSE IF allInt THEN [err |-> "none", val |-> ToFloat(PyInt(total) \div n)]
        ELSE [err |-> "none", val |-> FDiv(total, ToFloat(n))]

_calculate_pixels_per_foot(self_images, global_images) ==
    LET avg == average_altitude_meters(self_images, global_images)
        horiz_angle_of_view == horizontal_angle_of_view
        image_width_in_meters ==
            Sign(avg.val) * ((2 * horiz_angle_of_view.tan_half_num * Abs(avg.val))
                                \div horiz_angle_of_view.tan_half_den)
        image_width_in_feet == meters_to_feet(image_width_in_meters)
    IN  IF avg.err # "none" THEN avg
        ELSE IF image_width_in_feet = 0 THEN [err |-> "ZeroDivisionError", val |-> 0]
        ELSE [err |-> "none", val |-> FDiv(ToFloat(IMAGE_WIDTH), image_width_in_feet)]

(***************************************************************************)
(* Mosaic._create_mosaic_image: the size handed to Image.new, which        *)
(* refuses a negative width or height.                                    *)
(***************************************************************************)
_create_mosaic_image(top_left_lat_long, bottom_right_lat_long, pixels_per_foot) ==
    LET horiz_feet_between_edge_images ==
            horiz_distance_between_latlong_points_in_feet(top_left_lat_long,
                                                          bottom_right_lat_long)
        vert_feet_between_edge_images ==
            vert_distance_between_latlong_points_in_feet(top_left_lat_long,
                                                         bottom_right_lat_long)
        horiz_pixels == FMul(pixels_per_foot, horiz_feet_between_edge_images) + ToFloat(MarginWidth)
        vert_pixels == FMul(pixels_per_foot, vert_feet_between_edge_images) + ToFloat(MarginHeight)
        size == <<PyInt(horiz_pixels), PyInt(vert_pixels)>>
    IN  IF size[1] < 0 \/ size[2] < 0
        THEN [err |-> "ValueError", size |-> size]
        ELSE [err |-> "none", size |-> size]

(***************************************************************************)
(* Mosaic._calculate_vertical_offset / _calculate_horizontal_offset        *)
(***************************************************************************)
_calculate_vertical_offset(pixels_per_foot, image) ==
    LET offset_in_meters == FMul(image.altitude, TanDeg(image.pitch))
        offset_in_feet == meters_to_feet(offset_in_meters)
    IN  FMul(pixels_per_foot, offset_in_feet)

_calculate_horizontal_offset(pixels_per_foot, image) ==
    LET offset_in_meters == FMul(image.altitude, TanDeg(image.roll))
        offset_in_feet == meters_to_feet(offset_in_meters)
    IN  FMul(pixels_per_foot, offset_in_feet)

(***************************************************************************)
(* The yaw step of add_image_to_mosaic: the two offsets after the          *)
(* correction for the heading.                                             *)
(***************************************************************************)
YawStepSinCosSwapped(vertical_offset_pixels, horizontal_offset_pixels, yaw) ==
    LET xshift == FMul(vertical_offset_pixels, CosDeg(yaw))
    IN  [vertical_offset_pixels |-> FMul(vertical_offset_pixels, SinDeg(yaw)),
         horizontal_offset_pixels |-> horizontal_offset_pixels - xshift]

YawStep(vertical_offset_pixels, horizontal_offset_pixels, yaw) ==
    LET xshift == FMul(vertical_offset_pixels, SinDeg(yaw))
    IN  [vertical_offset_pixels |-> FMul(vertical_offset_pixels, CosDeg(yaw)),
         horizontal_offset_pixels |-> horizontal_offset_pixels - xshift]

(***************************************************************************)
(* img.rotate(degrees, expand=True) of a 4000 x 3000 image: the size of    *)
(* the bounding box of the rotated image.                                  *)
(***************************************************************************)
RotatedSize(degrees) ==
    LET c == Abs(CosDeg(Abs(degrees)))
        sn == Abs(SinDeg(Abs(degrees)))
    IN  <<PyInt(IMAGE_WIDTH * c + IMAGE_HEIGHT * sn),
          PyInt(IMAGE_WIDTH * sn + IMAGE_HEIGHT * c)>>

(***************************************************************************)
(* Mosaic._paste_image: the top-left corner of an image centred at (x, y)  *)
(***************************************************************************)
_paste_image(size, x, y) ==
    [left |-> x - (size[1] \div 2), top |-> y - (size[2] \div 2),
     width |-> size[1], height |-> size[2]]

(***************************************************************************)
(* add_image_to_mosaic, first part: the centre of the image before any     *)
(* correction for the drone's orientation.                                 *)
(***************************************************************************)
ProvisionalCentreSwapped(self, image) ==
    LET imagepos == <<image.lat, image.long>>
        feet_from_left ==
            horiz_distance_between_latlong_points_in_feet(imagepos, self.top_left_lat_long)
        pixels_from_left == FMul(feet_from_left, self.pixels_per_foot)
        feet_from_top ==
            vert_distance_between_latlong_points_in_feet(imagepos, self.top_left_lat_long)
        pixels_from_top == FMul(feet_from_top, self.pixels_per_foot)
    IN  <<AnchorY + PyInt(pixels_from_left), AnchorX + PyInt(pixels_from_top)>>

ProvisionalCentre(self, image) ==
    LET imagepos == <<image.lat, image.long>>
        feet_from_left ==
            horiz_distance_between_latlong_points_in_feet(imagepos, self.top_left_lat_long)
        pixels_from_left == FMul(feet_from_left, self.pixels_per_foot)
        feet_from_top ==
            vert_distance_between_latlong_points_in_feet(imagepos, self.top_left_lat_long)
        pixels_from_top == FMul(feet_from_top, self.pixels_per_foot)
    IN  <<AnchorX + PyInt(pixels_from_left), AnchorY + PyInt(pixels_from_top)>>

(***************************************************************************)
(* Mosaic.add_image_to_mosaic, up to the paste: everything it computes.    *)
(***************************************************************************)
Placement(self, image) ==
    LET xy0 == ProvisionalCentre(self, image)
        x0 == xy0[1]
        y0 == xy0[2]
        vertical_offset_pixels == _calculate_vertical_offset(self.pixels_per_foot, image)
        horizontal_offset_pixels == _calculate_horizontal_offset(self.pixels_per_foot, image)
        turned == YawStep(vertical_offset_pixels, horizontal_offset_pixels, image.yaw)
        x == ToFloat(x0) + turned.horizontal_offset_pixels
        y == ToFloat(y0) + turned.vertical_offset_pixels
        degrees == -1 * image.yaw
    IN  [image |-> image,
         provisional |-> <<x0, y0>>,
         pitch_offset |-> vertical_offset_pixels,
         roll_offset |-> horizontal_offset_pixels,
         vertical_offset_pixels |-> turned.vertical_offset_pixels,
         horizontal_offset_pixels |-> turned.horizontal_offset_pixels,
         x |-> x, y |-> y,
         centre |-> <<PyInt(x), PyInt(y)>>,
         degrees |-> degrees,
         box |-> _paste_image(RotatedSize(degrees), PyInt(x), PyInt(y))]

(***************************************************************************)
(* Init: the module has been imported or started; nothing is bound yet.    *)
(***************************************************************************)
Init ==
    /\ images = None
    /\ ctor_arg = None
    /\ m = None
    /\ idx = 1
    /\ pasted = <<>>
    /\ error = "none"
    /\ saved = FALSE

Running == error = "none"

\* images = load_images_data_from_json()
LoadImages ==
    /\ Running
    /\ images = None
    /\ m = None
    /\ \E data \in DataFiles : images' = Some(data)
    /\ UNCHANGED <<ctor_arg, m, idx, pasted, error, saved>>

(***************************************************************************)
(* Mosaic.__init__(imgs): corners, scale, canvas, in this order; the first *)
(* exception ends it and no object comes to exist.                         *)
(***************************************************************************)
Construct(imgs) ==
    LET corners == _get_mosaic_lat_long_corners(imgs)
        ppf == _calculate_pixels_per_foot(imgs, images)
        top_left == <<corners.top_left[1][1], corners.top_left[2][1]>>
        bottom_right == <<corners.bottom_right[1][1], corners.bottom_right[2][1]>>
        canvas == _create_mosaic_image(top_left, bottom_right, ppf.val)
    IN  /\ Running
        /\ m = None
        /\ ctor_arg' = Some(imgs)
        /\ IF ppf.err # "none"
           THEN /\ error' = ppf.err
                /\ m' = None
           ELSE IF canvas.err # "none"
           THEN /\ error' = canvas.err
                /\ m' = None
           ELSE /\ error' = "none"
                /\ m' = Some([images |-> imgs,
                              top_left_lat_long |-> top_left,
                              bottom_right_lat_long |-> bottom_right,
                              pixels_per_foot |-> ppf.val,
                              mosaic_image |-> canvas.size])
        /\ idx' = 1
        /\ UNCHANGED <<images, pasted, saved>>

(***************************************************************************)
(* One pass of add_all_images' loop: add_image_to_mosaic(self.images[idx]).*)
(* Image.open raises IOError when the file cannot be opened; nothing is    *)
(* pasted then and the exception leaves the loop.                          *)
(***************************************************************************)
\* a loop that catches the IOError and goes on to the next image
AddImageToMosaicSkipping ==
    /\ Running
    /\ m # None
    /\ idx <= Len(m[1].images)
    /\ \E opens \in BOOLEAN :
          IF opens
          THEN /\ pasted' = Append(pasted, Placement(m[1], m[1].images[idx]))
               /\ idx' = idx + 1
               /\ error' = "none"
          ELSE /\ idx' = idx + 1
               /\ UNCHANGED <<pasted, error>>
    /\ UNCHANGED <<images, ctor_arg, m, saved>>

AddImageToMosaic ==
    /\ Running
    /\ m # None
    /\ idx <= Len(m[1].images)
    /\ \E opens \in BOOLEAN :
          IF opens
          THEN /\ pasted' = Append(pasted, Placement(m[1], m[1].images[idx]))
               /\ idx' = idx + 1
               /\ error' = "none"
          ELSE /\ error' = "IOError"
               /\ UNCHANGED <<pasted, idx>>
    /\ UNCHANGED <<images, ctor_arg, m, saved>>

\* m.save('mosaic.png'), after add_all_images has returned
Save ==
    /\ Running
    /\ m # None
    /\ idx > Len(m[1].images)
    /\ ~saved
    /\ saved' = TRUE
    /\ UNCHANGED <<images, ctor_arg, m, idx, pasted, error>>

\* m = Mosaic(imgs), for any list: the program has no Mosaic yet
NewMosaic ==
    /\ Running
    /\ m = None
    /\ \E imgs \in ImageLists : Construct(imgs)

Next ==
    \/ LoadImages
    \/ NewMosaic
    \/ AddImageToMosaic
    \/ Save

Spec == Init /\ [][Next]_vars

(***************************************************************************)
(* Properties                                                              *)
(***************************************************************************)
Constructed == m # None

Level(image) == image.yaw = 0 /\ image.pitch = 0 /\ image.roll = 0

Pasted == { pasted[k] : k \in 1..Len(pasted) }

\* the list was loaded and handed to Mosaic as the script does: len(images)
\* is the length of the Mosaic's own list
ScriptRun ==
    /\ images # None
    /\ ctor_arg # None
    /\ Len(images[1]) = Len(ctor_arg[1])

ValidAltitudes ==
    /\ ctor_arg # None
    /\ \A i \in 1..Len(ctor_arg[1]) : ctor_arg[1][i].altitude > 0

AtTopLeft(image) ==
    /\ image.lat = m[1].top_left_lat_long[1]
    /\ image.long = m[1].top_left_lat_long[2]

\* C1: for every non-empty list given to Mosaic, the corners bound every
\* image (top-left latitude >= image latitude >= bottom-right latitude,
\* top-left longitude <= image longitude <= bottom-right longitude), each
\* corner coordinate is the latitude or longitude of some image, and the
\* constructed object holds exactly these corners.
C1_CornersBoundEveryImage ==
    (ctor_arg # None /\ Len(ctor_arg[1]) > 0) =>
        LET imgs == ctor_arg[1]
            c == _get_mosaic_lat_long_corners(imgs)
            tl == <<c.top_left[1][1], c.top_left[2][1]>>
            br == <<c.bottom_right[1][1], c.bottom_right[2][1]>>
        IN  /\ \A i \in 1..Len(imgs) :
                  /\ tl[1] >= imgs[i].lat /\ imgs[i].lat >= br[1]
                  /\ tl[2] <= imgs[i].long /\ imgs[i].long <= br[2]
            /\ \E i \in 1..Len(imgs) : imgs[i].lat = tl[1]
            /\ \E i \in 1..Len(imgs) : imgs[i].lat = br[1]
            /\ \E i \in 1..Len(imgs) : imgs[i].long = tl[2]
            /\ \E i \in 1..Len(imgs) : imgs[i].long = br[2]
            /\ Constructed =>
                  /\ m[1].top_left_lat_long = tl
                  /\ m[1].bottom_right_lat_long = br

\* a mosaic of two images, the second one north-west of the first
C1_Witness ==
    /\ Constructed
    /\ Len(m[1].images) = 2
    /\ m[1].images[2].lat > m[1].images[1].lat
    /\ m[1].images[2].long < m[1].images[1].long

\* C2 as claimed, for a list of valid altitudes built the script's way:
\* every pasted rectangle lies inside the canvas.
C2_PastedInsideCanvas ==
    (ScriptRun /\ ValidAltitudes) =>
        \A p \in Pasted :
            /\ p.box.left >= 0
            /\ p.box.top >= 0
            /\ p.box.left + p.box.width <= m[1].mosaic_image[1]
            /\ p.box.top + p.box.height <= m[1].mosaic_image[2]

\* C3 as claimed, for a Mosaic built the script's way: the canvas is exactly
\* 4000 x 3000 pixels larger than the truncated pixel size of the extent
\* between the corners.
C3_CanvasIsExtentPlusMargin ==
    (ScriptRun /\ Constructed) =>
        LET self == m[1]
            horiz_feet == horiz_distance_between_latlong_points_in_feet(
                              self.top_left_lat_long, self.bottom_right_lat_long)
            vert_feet == vert_distance_between_latlong_points_in_feet(
                              self.top_left_lat_long, self.bottom_right_lat_long)
        IN  /\ self.mosaic_image[1] = PyInt(FMul(self.pixels_per_foot, horiz_feet)) + 4000
            /\ self.mosaic_image[2] = PyInt(FMul(self.pixels_per_foot, vert_feet)) + 3000

\* C4: an image with yaw = pitch = roll = 0 gets no offset and no rotation:
\* its centre is (2000 + int(pixels_from_left), 1500 + int(pixels_from_top));
\* at the top-left corner of the mosaic that is the anchor (2000, 1500), half
\* of the canvas margin (4000, 3000).
C4_LevelImageIsPlacedAtProvisionalCentre ==
    \A p \in Pasted :
        Level(p.image) =>
            LET self == m[1]
                feet_from_left == horiz_distance_between_latlong_points_in_feet(
                                      <<p.image.lat, p.image.long>>, self.top_left_lat_long)
                feet_from_top == vert_distance_between_latlong_points_in_feet(
                                      <<p.image.lat, p.image.long>>, self.top_left_lat_long)
            IN  /\ p.centre = <<2000 + PyInt(FMul(feet_from_left, self.pixels_per_foot)),
                                1500 + PyInt(FMul(feet_from_top, self.pixels_per_foot))>>
                /\ p.x = ToFloat(p.centre[1]) /\ p.y = ToFloat(p.centre[2])
                /\ p.horizontal_offset_pixels = 0 /\ p.vertical_offset_pixels = 0
                /\ p.degrees = 0
                /\ p.box.width = IMAGE_WIDTH /\ p.box.height = IMAGE_HEIGHT
                /\ AtTopLeft(p.image) =>
                      /\ p.centre = <<2000, 1500>>
                      /\ 2 * p.centre[1] = MarginWidth
                      /\ 2 * p.centre[2] = MarginHeight

\* a level image pasted at the top-left corner of a mosaic that extends
\* south and east of it, and a level image pasted elsewhere
C4_Witness ==
    /\ Constructed
    /\ m[1].top_left_lat_long # m[1].bottom_right_lat_long
    /\ \E p \in Pasted : Level(p.image) /\ AtTopLeft(p.image)
    /\ \E p \in Pasted : Level(p.image) /\ p.centre[1] > 2000 /\ p.centre[2] > 1500

\* C5 as claimed, for a Mosaic built the script's way: of two level images
\* on one meridian the northern one is placed strictly above the other, by
\* the vertical ground distance between them times pixels_per_foot, within
\* one pixel.
C5_NorthernImageIsStrictlyAbove ==
    \A p \in Pasted : \A q \in Pasted :
        (/\ ScriptRun
         /\ Level(p.image) /\ Level(q.image)
         /\ p.image.long = q.image.long
         /\ p.image.lat > q.image.lat) =>
            LET feet == vert_distance_between_latlong_points_in_feet(
                            <<p.image.lat, p.image.long>>, <<q.image.lat, q.image.long>>)
                pixels == FMul(feet, m[1].pixels_per_foot)
            IN  /\ p.centre[2] < q.centre[2]
                /\ Abs(ToFloat(q.centre[2] - p.centre[2]) - pixels) <= ToFloat(1)

\* C6 as claimed, for a list handed to Mosaic the script's way: an empty
\* list, or a list with an altitude <= 0, is rejected: the constructor raises
\* and no Mosaic (canvas, scale factor) comes to exist.
C6_InvalidInputIsRejected ==
    (/\ ScriptRun
     /\ \/ Len(ctor_arg[1]) = 0
        \/ \E i \in 1..Len(ctor_arg[1]) : ctor_arg[1][i].altitude <= 0) =>
        (~Constructed /\ error # "none")

\* C7 as claimed: for a non-empty list of images that all have altitude > 0
\* the scale is computed without an exception and is strictly positive.
C7_ScaleIsPositive ==
    (/\ ctor_arg # None
     /\ Len(ctor_arg[1]) > 0
     /\ \A i \in 1..Len(ctor_arg[1]) : ctor_arg[1][i].altitude > 0) =>
        (Constructed /\ m[1].pixels_per_foot > 0)

\* C8: with roll = 0 and yaw = 90 the pitch offset V maps onto the horizontal
\* axis: the corrected horizontal offset is -V, the corrected vertical offset
\* is 0, x moves by -V and y does not move.
C8_Yaw90MapsPitchOffsetOntoX ==
    \A p \in Pasted :
        (p.image.yaw = 90 /\ p.image.roll = 0) =>
            LET V == _calculate_vertical_offset(m[1].pixels_per_foot, p.image)
            IN  /\ p.horizontal_offset_pixels = -V
                /\ p.vertical_offset_pixels = 0
                /\ p.x = ToFloat(p.provisional[1]) - V
                /\ p.y = ToFloat(p.provisional[2])

\* an image with yaw = 90, roll = 0 and a pitch whose offset is not zero
C8_Witness ==
    \E p \in Pasted :
        /\ p.image.yaw = 90 /\ p.image.roll = 0 /\ p.image.pitch # 0
        /\ p.pitch_offset # 0
        /\ p.centre[1] # p.provisional[1]

\* the scale factor for a mean altitude (the steps of
\* _calculate_pixels_per_foot after the mean)
ScaleForMean(mean) ==
    FDiv(ToFloat(IMAGE_WIDTH),
         meters_to_feet((2 * WIDTH_MM * mean) \div (2 * FOCAL_LENGTH)))

\* C9 as claimed, for a list of valid altitudes: the scale factor of a Mosaic
\* comes from the untruncated mean of the altitudes of its own images, their
\* sum over their own count, whatever the module-level list is.
C9_ScaleFromOwnMeanAltitude ==
    (ValidAltitudes /\ Len(ctor_arg[1]) > 0) =>
        /\ Constructed
        /\ LET self == m[1]
               mean == FDiv(SumAltitudes(self.images, 1), ToFloat(Len(self.images)))
           IN  self.pixels_per_foot = ScaleForMean(mean)

\* C10 as claimed, for a list of valid altitudes built the script's way:
\* facing north with roll = 0, a positive pitch places the image at or above
\* its provisional centre (y not greater), a negative pitch at or below it
\* (y not smaller).
C10_NoseUpShiftsImageUp ==
    \A p \in Pasted :
        (ScriptRun /\ ValidAltitudes /\ p.image.yaw = 0 /\ p.image.roll = 0) =>
            /\ p.image.pitch > 0 => p.centre[2] <= p.provisional[2]
            /\ p.image.pitch < 0 => p.centre[2] >= p.provisional[2]

\* the images pasted so far are the first idx - 1 images of the Mosaic's own
\* list, in list order, one paste per image
PastedInListOrder ==
    Constructed =>
        /\ Len(pasted) = idx - 1
        /\ idx <= Len(m[1].images) + 1
        /\ \A k \in 1..Len(pasted) : pasted[k].image = m[1].images[k]

\* C11: add_all_images pastes the images one at a time in list order; when
\* the file of an image cannot be opened the IOError ends the build at that
\* image: the image is not pasted and not skipped (the images pasted are
\* exactly the ones before it), and from then on nothing is pasted, the loop
\* does not advance, nothing is saved and the error stays.
C11_BuildAbortsAtFirstUnopenedImage ==
    /\ [](PastedInListOrder)
    /\ [](error = "IOError" => (Constructed /\ idx <= Len(m[1].images)))
    /\ [][/\ Len(pasted') <= Len(pasted) + 1
          /\ error = "IOError" =>
                (pasted' = pasted /\ idx' = idx /\ saved' = saved /\ error' = "IOError")]_vars

\* the file of the first image could not be opened and a later image of the
\* list exists, which has not been pasted
C11_Witness ==
    /\ error = "IOError"
    /\ Constructed
    /\ idx < Len(m[1].images)
    /\ Len(pasted) = 0

====
